---- MODULE Spec2Model ----
(***************************************************************************)
(* A model of the call_webhook and call_resthook actions of the flow       *)
(* engine (flows/actions), of the service registry (flows/engine) and of   *)
(* the session that runs flows, as cmd/flowrunner's runFlow drives it.     *)
(*                                                                         *)
(* The state is the part of a session and of its current run the actions   *)
(* read and write: the service registry, the resthook assets, the run's    *)
(* event log, its webhook scratch value and its results, and the requests  *)
(* the webhook service received.  Each Execute is one atomic step whose    *)
(* inputs (the outcome of every template evaluation, of the service        *)
(* factory and of every service call) are drawn from small sets.           *)
(*                                                                         *)
(* Spec is the state machine of one Execute.  SessionSpec is the state     *)
(* machine of a session started on a flow, pumped node by node, and        *)
(* serialised, read back and resumed at its waits, next to a session that  *)
(* is given the same trigger and resumes and is never serialised.          *)
(***************************************************************************)
EXTENDS Integers, Sequences, FiniteSets, TLC

VARIABLES
    services,   \* the engine's service registry: capability -> factory
    resthooks,  \* the session assets: resthook slug -> subscriber URLs
    events,     \* the event log fed by logEvent
    webhook,    \* run.webhook, written by run.SetWebhook
    results,    \* the run's results, keyed by snakified name
    requests,   \* the requests handed to WebhookService.Call, in order
    exec,       \* the last Execute: the action, its inputs, the state before, its return
    control,    \* the run's path and status, the session's stack and wait
    persisted,  \* the session runFlow drives, read back before every Resume
    memory,     \* a session given the same trigger and resumes, never serialised
    driver      \* runFlow: where it is, the flow, the resumes done

vars == <<services, resthooks, events, webhook, results, requests, exec, control,
          persisted, memory, driver>>

----------------------------------------------------------------------------
(* Bounds of the model *)

\* the longest subscriber list of a resthook
MaxSubscribers == 3
\* the largest number of headers of a call_webhook action
MaxHeaders == 2
\* the cap on node visits of one Start or Resume
MaxNodeVisits == 4
\* the cap on visits to the same node without a wait in between
MaxSameNodeVisits == 2
\* the largest number of resumes runFlow is given
MaxResumes == 2

----------------------------------------------------------------------------
(* Values *)

\* a nil error; every other string is an error's message
NoErr == ""
\* a nil *flows.WebhookCall
NoCall == [nil |-> TRUE]
\* the webhook scratch of a run on which SetWebhook was never called
NoWebhook == [kind |-> "unset", data |-> ""]
\* a nil service
NoService == "<nil>"

Capabilities ==
    {"email", "webhook", "classification", "ticket", "airtime", "external_service", "msg_catalog"}

\* the slug no resthook asset has
UnknownSlug == "no-such-hook"

\* the i-th subscriber URL is either well formed or one url.Parse rejects
GoodURL(i) == CASE i = 1 -> "http://a/1" [] i = 2 -> "http://b/2"
                [] i = 3 -> "http://c/3" [] OTHER -> "http://d/4"
BadURL == ":"

RECURSIVE SubscriberLists(_)
SubscriberLists(n) ==
    IF n = 0 THEN {<<>>}
    ELSE LET shorter == SubscriberLists(n - 1)
         IN  shorter \cup
             { Append(s, u) : s \in {t \in shorter : Len(t) = n - 1},
                              u \in {GoodURL(n), BadURL} }

\* what a template can evaluate to
URLValues == {"", BadURL, "http://hook/x"}
Methods == {"get", "b d"}
HeaderKeys == {"Authorization", "X-Token", "x-token"}
ResultNames == {"", "Hook Result"}

\* what the webhook service can answer: a status code and a response trace
Replies ==
    { [status_code |-> 0,   response |-> ""],
      [status_code |-> 200, response |-> "{\"ok\":true}"],
      [status_code |-> 299, response |-> "done"],
      [status_code |-> 410, response |-> "{\"gone\":1}"],
      [status_code |-> 500, response |-> "oops"] }

\* the resthook payload the template evaluates to
Payloads == {"{\"contact\":{}}", "{\"contact\":"}

----------------------------------------------------------------------------
(* The service registry: flows/engine/services.go *)

\* A factory ignores its arguments and returns a (service, error) pair, so it is
\* modelled by the pair it returns.
newEmptyServices_NoWebhookError ==
    [ email            |-> [svc |-> NoService, err |-> "no email service factory configured"],
      webhook          |-> [svc |-> NoService, err |-> NoErr],
      classification   |-> [svc |-> NoService, err |-> "no classification service factory configured"],
      ticket           |-> [svc |-> NoService, err |-> "no ticket service factory configured"],
      airtime          |-> [svc |-> NoService, err |-> "no airtime service factory configured"],
      external_service |-> [svc |-> NoService, err |-> "no external service factory configured"],
      msg_catalog      |-> [svc |-> NoService, err |-> "no external service factory configured"] ]

newEmptyServices ==
    [ email            |-> [svc |-> NoService, err |-> "no email service factory configured"],
      webhook          |-> [svc |-> NoService, err |-> "no webhook service factory configured"],
      classification   |-> [svc |-> NoService, err |-> "no classification service factory configured"],
      ticket           |-> [svc |-> NoService, err |-> "no ticket service factory configured"],
      airtime          |-> [svc |-> NoService, err |-> "no airtime service factory configured"],
      external_service |-> [svc |-> NoService, err |-> "no external service factory configured"],
      msg_catalog      |-> [svc |-> NoService, err |-> "no external service factory configured"] ]

\* a registry whose webhook factory was set by the engine's builder
WithWebhookServiceFactory(reg) ==
    [reg EXCEPT !.webhook = [svc |-> "webhook-service", err |-> NoErr]]

Email(reg, session) == reg.email
Webhook(reg, session) == reg.webhook
Classification(reg, session, classifier) == reg.classification
Ticket(reg, session, ticketer) == reg.ticket
Airtime(reg, session) == reg.airtime
ExternalService(reg, session, externalService) == reg.external_service
MsgCatalog(reg, session, msgCatalog) == reg.msg_catalog

\* the accessor of a capability, for any session and config
Accessor(reg, cap, session, config) ==
    CASE cap = "email"            -> Email(reg, session)
      [] cap = "webhook"          -> Webhook(reg, session)
      [] cap = "classification"   -> Classification(reg, session, config)
      [] cap = "ticket"           -> Ticket(reg, session, config)
      [] cap = "airtime"          -> Airtime(reg, session)
      [] cap = "external_service" -> ExternalService(reg, session, config)
      [] cap = "msg_catalog"      -> MsgCatalog(reg, session, config)

----------------------------------------------------------------------------
(* Library functions the actions call, on the strings of this model *)

\* encoding/json.Valid: the texts of the model that are well-formed JSON
jsonValid(text) == text \in {"{\"contact\":{}}", "{\"ok\":true}", "{\"gone\":1}"}

\* net/url.Parse: ":" has no scheme before its colon and is rejected; the empty
\* string and the http URLs of the model parse
urlParseErr(u) == IF u = BadURL THEN "parse \":\": missing protocol scheme" ELSE NoErr

isValidURL_Any(u) == TRUE

isValidURL(u) == urlParseErr(u) = NoErr

\* strings.ToUpper on the methods of the model
ToUpper(m) == CASE m = "get" -> "GET" [] m = "POST" -> "POST" [] m = "b d" -> "B D"
                [] OTHER -> m

\* net/http.validMethod: a method is a non-empty token, so it holds no space
validMethod(m) == m \in {"GET", "POST"}

\* net/http.NewRequest: the error it returns, NoErr when the request is built
NewRequestErr(method, url) ==
    IF ~validMethod(method) THEN "net/http: invalid method"
    ELSE urlParseErr(url)

\* http.Header: a map from a header's key to the values added under it
NoHeaders == <<>>

\* textproto.CanonicalMIMEHeaderKey on the header keys of the model: the first
\* letter and every letter after a hyphen in upper case, the others in lower case
CanonicalMIMEHeaderKey(key) ==
    CASE key = "x-token" -> "X-Token" [] key = "content-type" -> "Content-Type"
      [] OTHER -> key

\* http.Header.Add: the value is appended to the values of the canonical form of
\* the key
HeaderAdd(header, key, value) ==
    LET canonical == CanonicalMIMEHeaderKey(key)
    IN  [k \in DOMAIN header \cup {canonical} |->
            IF k = canonical
            THEN IF k \in DOMAIN header THEN Append(header[k], value) ELSE <<value>>
            ELSE header[k]]

NewRequest(method, url, body, headers) ==
    [method |-> method, url |-> url, body |-> body, headers |-> headers]

Max(S) == CHOOSE x \in S : \A y \in S : y <= x

\* strconv.Itoa on the naturals
RECURSIVE Itoa(_)
Itoa(n) ==
    LET digit(d) == CASE d = 0 -> "0" [] d = 1 -> "1" [] d = 2 -> "2" [] d = 3 -> "3"
                      [] d = 4 -> "4" [] d = 5 -> "5" [] d = 6 -> "6" [] d = 7 -> "7"
                      [] d = 8 -> "8" [] d = 9 -> "9"
    IN  IF n < 10 THEN digit(n) ELSE Itoa(n \div 10) \o digit(n % 10)

----------------------------------------------------------------------------
(* The call status and the picked call: call_webhook.go, call_resthook.go *)

CallStatusConnectionError == "connection_error"
CallStatusSubscriberGone == "subscriber_gone"
CallStatusSuccess == "success"
CallStatusResponseError == "response_error"

callStatus_NoZeroCase(call, isResthook) ==
    IF isResthook /\ call.status_code = 410 THEN CallStatusSubscriberGone
    ELSE IF call.status_code \div 100 = 2 THEN CallStatusSuccess
    ELSE CallStatusResponseError

callStatus_NoResthookCase(call, isResthook) ==
    IF call.status_code = 0 THEN CallStatusConnectionError
    ELSE IF call.status_code = 410 THEN CallStatusSubscriberGone
    ELSE IF call.status_code \div 100 = 2 THEN CallStatusSuccess
    ELSE CallStatusResponseError

\* determines the webhook status from the HTTP status code
callStatus(call, isResthook) ==
    IF call.status_code = 0 THEN CallStatusConnectionError
    ELSE IF isResthook /\ call.status_code = 410 THEN CallStatusSubscriberGone
    ELSE IF call.status_code \div 100 = 2 THEN CallStatusSuccess
    ELSE CallStatusResponseError

\* the loop of pickResultCall over calls[i..], with its three locals
RECURSIVE pickLoop(_, _, _)
pickLoop(calls, i, acc) ==
    IF i > Len(calls) THEN acc
    ELSE LET call == calls[i]
         IN  pickLoop(calls, i + 1,
                 IF call.status_code \div 100 = 2 THEN [acc EXCEPT !.lastSuccess = call]
                 ELSE IF call.status_code = 410 THEN [acc EXCEPT !.last410 = call]
                 ELSE [acc EXCEPT !.lastFailure = call])

pickResultCall_SuccessFirst(calls) ==
    LET acc == pickLoop(calls, 1,
                   [lastSuccess |-> NoCall, last410 |-> NoCall, lastFailure |-> NoCall])
    IN  IF acc.lastSuccess # NoCall THEN acc.lastSuccess
        ELSE IF acc.lastFailure # NoCall THEN acc.lastFailure
        ELSE acc.last410

\* picks one of the resthook calls to become the result generated by the action
pickResultCall(calls) ==
    LET acc == pickLoop(calls, 1,
                   [lastSuccess |-> NoCall, last410 |-> NoCall, lastFailure |-> NoCall])
    IN  IF acc.lastFailure # NoCall THEN acc.lastFailure
        ELSE IF acc.lastSuccess # NoCall THEN acc.lastSuccess
        ELSE acc.last410

----------------------------------------------------------------------------
(* Events, results and the run: what the actions call in flows and events *)

NewError(err) == [type |-> "error", text |-> err]

NewResthookCalled(resthook, payload) ==
    [type |-> "resthook_called", resthook |-> resthook, payload |-> payload]

NewWebhookCalled(call, status, resthook) ==
    [type |-> "webhook_called", url |-> call.url, status |-> status,
     status_code |-> call.status_code, response |-> call.response, resthook |-> resthook]

NewRunResultChanged(result) ==
    [type |-> "run_result_changed", name |-> result.name, value |-> result.value,
     category |-> result.category]

\* utils.Snakify on the result names of the model: lower case, "_" for the rest
Snakify(name) ==
    CASE name = "Hook Result" -> "hook_result" [] name = "Earlier" -> "earlier"
      [] name = "Name" -> "name" [] name = "Age" -> "age"
      [] OTHER -> name

\* utils.ExtractResponseJSON: the body of a response, and whether it parses as JSON
ExtractResponseJSON(response) == [json |-> jsonValid(response), body |-> response]

\* types.JSONToXValue: the parsed JSON body as an expression value, or the raw body
JSONToXValue(data) ==
    IF data.json THEN [kind |-> "json", data |-> data.body]
    ELSE [kind |-> "text", data |-> data.body]

\* one effect of an Execute on its surroundings, as noted in the execution's record
Effect(op, arg) == [op |-> op, arg |-> arg]

\* the state an Execute works on: the run, the log and the service's inbox; every
\* effect is noted in order in the execution's record
logEvent(st, e) ==
    [st EXCEPT !.events = Append(@, e), !.trace = Append(@, Effect("logEvent", e.type))]

\* a non-nil error the action's code has in hand: its message is noted in the
\* execution's record and the state is otherwise unchanged
fault(st, err) == [st EXCEPT !.faults = Append(@, err)]

\* if err != nil { logEvent(events.NewError(err)) }
logIfErr_Silent(st, err) == IF err # NoErr THEN fault(st, err) ELSE st

logIfErr(st, err) == IF err # NoErr THEN logEvent(fault(st, err), NewError(err)) ELSE st

SetWebhook(st, value) ==
    [st EXCEPT !.webhook = value, !.trace = Append(@, Effect("SetWebhook", value.kind))]

SaveResult(st, result) ==
    LET key == Snakify(result.name)
        old == st.results
    IN  [st EXCEPT !.results =
            [k \in DOMAIN old \cup {key} |-> IF k = key THEN result ELSE old[k]],
                   !.trace = Append(@, Effect("SaveResult", key))]

\* baseAction.saveResult: saves the result on the run and logs the change
saveResult(st, name, value, category, input, extra) ==
    LET result == [name |-> name, value |-> value, category |-> category,
                   input |-> input, extra |-> extra]
    IN  logEvent(SaveResult(st, result), NewRunResultChanged(result))

webhookStatusCategories(status) ==
    IF status = CallStatusSuccess THEN "Success" ELSE "Failure"

\* baseAction.saveWebhookResult: a result made from a call and its status
saveWebhookResult(st, name, call, status, responseAsExtra) ==
    saveResult(st, name, Itoa(call.status_code), webhookStatusCategories(status),
               call.method \o " " \o call.url,
               IF responseAsExtra /\ ExtractResponseJSON(call.response).json
               THEN call.response ELSE "")

\* the record WebhookService.Call returns for a request it got an answer to
WebhookCall(req, reply) ==
    [url |-> req.url, method |-> req.method, status_code |-> reply.status_code,
     response |-> reply.response]

\* svc.Call: the service receives the request
Call(st, req) ==
    [st EXCEPT !.requests = Append(@, req), !.trace = Append(@, Effect("Call", req.url))]

----------------------------------------------------------------------------
(* The resthook assets *)

NoResthook == [nil |-> TRUE]

\* the slug of the resthook with the given subscribers: one letter per subscriber
RECURSIVE SlugOf(_)
SlugOf(subs) ==
    IF subs = <<>> THEN "hook"
    ELSE SlugOf(SubSeq(subs, 1, Len(subs) - 1))
            \o (IF subs[Len(subs)] = BadURL THEN "-x" ELSE "-s")

\* the session's resthooks: one for every subscriber list
ResthookAssets ==
    { [slug |-> SlugOf(subs), subscribers |-> subs] : subs \in SubscriberLists(MaxSubscribers) }

Slugs == {UnknownSlug} \cup { r.slug : r \in ResthookAssets }

FindBySlug_First(assets, slug) ==
    IF assets = {} THEN NoResthook
    ELSE IF \E r \in assets : r.slug = slug THEN CHOOSE r \in assets : r.slug = slug
    ELSE CHOOSE r \in assets : r.subscribers # <<>>

\* Resthooks().FindBySlug: the resthook with the slug, nil when there is none
FindBySlug(assets, slug) ==
    IF \E r \in assets : r.slug = slug THEN CHOOSE r \in assets : r.slug = slug
    ELSE NoResthook

----------------------------------------------------------------------------
(* call_webhook: flows/actions/call_webhook.go *)

TypeCallWebhook == "call_webhook"
TypeCallResthook == "call_resthook"

NoEval == [val |-> "", err |-> NoErr]

\* the loop of call over the headers, in the order the map yields them: each value
\* is evaluated, an error is logged, and the header is added all the same
RECURSIVE headerLoop(_, _, _, _)
headerLoop(acc, order, evals, i) ==
    IF i > Len(order) THEN acc
    ELSE LET key == order[i]
             ev == evals[key]
             st1 == logIfErr(acc.st, ev.err)
         IN  headerLoop([st |-> st1, headers |-> HeaderAdd(acc.headers, key, ev.val)],
                        order, evals, i + 1)

shouldSaveResult_Always(a) == TRUE

\* call_webhook.go:147
shouldSaveResult(a) == a.result_name # ""

\* call_webhook.go:115-117: call returns the error of http.NewRequest
requestFailed(st, err) == [fault(st, err) EXCEPT !.ret = err]

recordWebhookCall_OnSuccess(st, c, status) ==
    IF status = CallStatusSuccess
    THEN SetWebhook(logEvent(st, NewWebhookCalled(c, status, "")),
                    JSONToXValue(ExtractResponseJSON(c.response)))
    ELSE logEvent(st, NewWebhookCalled(c, status, ""))

recordWebhookCall_SetFirst(st, c, status) ==
    logEvent(SetWebhook(st, JSONToXValue(ExtractResponseJSON(c.response))),
             NewWebhookCalled(c, status, ""))

\* call_webhook.go:143-145: the event of the call is logged, then the response
\* becomes run.webhook
recordWebhookCall(st, c, status) ==
    SetWebhook(logEvent(st, NewWebhookCalled(c, status, "")),
               JSONToXValue(ExtractResponseJSON(c.response)))

\* CallWebhookAction.call
call(a, st, reg, url, method, body, in) ==
    LET reqErr == NewRequestErr(method, url)
    IN  IF reqErr # NoErr THEN requestFailed(st, reqErr)
        ELSE
        LET hl == headerLoop([st |-> st, headers |-> NoHeaders], in.order, in.headers, 1)
            req == NewRequest(method, url, body, hl.headers)
            svc == Webhook(reg, "session")
        IN  IF svc.err # NoErr THEN [logIfErr(hl.st, svc.err) EXCEPT !.ret = NoErr]
            ELSE
            LET st1 == Call(hl.st, req)
                st2 == logIfErr(st1, in.out.err)
            IN  IF in.out.reply = NoCall THEN [st2 EXCEPT !.ret = NoErr]
                ELSE
                LET c == WebhookCall(req, in.out.reply)
                    status == callStatus(c, FALSE)
                    st4 == recordWebhookCall(st2, c, status)
                    st5 == IF shouldSaveResult(a)
                           THEN saveWebhookResult(st4, a.result_name, c, status,
                                                  a.response_as_extra)
                           ELSE st4
                IN  [st5 EXCEPT !.ret = NoErr, !.calls = <<c>>]

\* CallWebhookAction.Execute
CallWebhookExecute(a, st, reg, in) ==
    LET st1 == logIfErr(st, in.url.err)
        url == in.url.val
    IN  IF url = ""
        THEN [logIfErr(st1, "webhook URL evaluated to empty string") EXCEPT !.ret = NoErr]
        ELSE IF ~isValidURL(url)
        THEN [logIfErr(st1, "webhook URL evaluated to an invalid URL") EXCEPT !.ret = NoErr]
        ELSE
        LET method == ToUpper(a.method)
            bodyEval == IF a.body # "" THEN in.body ELSE [val |-> a.body, err |-> NoErr]
            st2 == logIfErr(st1, bodyEval.err)
        IN  call(a, st2, reg, url, method, bodyEval.val, in)

----------------------------------------------------------------------------
(* call_resthook: flows/actions/call_resthook.go *)

recordCall_Silent(st, c, resthook) == [st EXCEPT !.calls = Append(@, c)]

\* call_resthook.go:131-134: a call record is kept and its event logged
recordCall(st, c, resthook) ==
    logEvent([st EXCEPT !.calls = Append(@, c)],
             NewWebhookCalled(c, callStatus(c, TRUE), resthook))

subscriberRequestFailed_Returned(st, err) == [fault(st, err) EXCEPT !.ret = err]

\* call_resthook.go:113-116: the error of http.NewRequest is logged, Execute returns nil
subscriberRequestFailed(st, err) == logIfErr(st, err)

\* the loop of Execute over subscribers[i..]; done is set by a return in the loop
RECURSIVE subscriberLoop(_, _, _, _, _, _, _)
subscriberLoop(a, st, reg, subs, payload, outs, i) ==
    IF i > Len(subs) THEN [st |-> st, done |-> FALSE]
    ELSE
    LET url == subs[i]
        reqErr == NewRequestErr("POST", url)
    IN  IF reqErr # NoErr
        THEN [st |-> subscriberRequestFailed(st, reqErr), done |-> TRUE]
        ELSE
        LET req == NewRequest("POST", url, payload,
                              HeaderAdd(NoHeaders, "Content-Type", "application/json"))
            svc == Webhook(reg, "session")
        IN  IF svc.err # NoErr
            THEN [st |-> logIfErr(st, svc.err), done |-> TRUE]
            ELSE
            LET out == outs[i]
                st1 == Call(st, req)
                st2 == logIfErr(st1, out.err)
                st3 == IF out.reply # NoCall
                       THEN recordCall(st2, WebhookCall(req, out.reply), a.resthook)
                       ELSE st2
            IN  subscriberLoop(a, st3, reg, subs, payload, outs, i + 1)

payloadValid_Any(payload) == TRUE

\* call_resthook.go:101: the payload is valid JSON
payloadValid(payload) == jsonValid(payload)

wantsResult_Always(a) == TRUE

\* call_resthook.go:142
wantsResult(a) == a.result_name # ""

finish_LastCall(a, st) ==
    LET asResult == pickResultCall(st.calls)
        st1 == IF asResult # NoCall
               THEN SetWebhook(st, JSONToXValue(ExtractResponseJSON(
                                       st.calls[Len(st.calls)].response)))
               ELSE st
        st2 == IF wantsResult(a)
               THEN IF asResult # NoCall
                    THEN saveWebhookResult(st1, a.result_name, asResult,
                                           callStatus(asResult, TRUE), FALSE)
                    ELSE saveResult(st1, a.result_name, "no subscribers", "Failure", "", "")
               ELSE st1
    IN  [st2 EXCEPT !.ret = NoErr, !.picked = asResult, !.finished = TRUE]

\* call_resthook.go:137-148: the picked call becomes run.webhook and the result
finish(a, st) ==
    LET asResult == pickResultCall(st.calls)
        st1 == IF asResult # NoCall
               THEN SetWebhook(st, JSONToXValue(ExtractResponseJSON(asResult.response)))
               ELSE st
        st2 == IF wantsResult(a)
               THEN IF asResult # NoCall
                    THEN saveWebhookResult(st1, a.result_name, asResult,
                                           callStatus(asResult, TRUE), FALSE)
                    ELSE saveResult(st1, a.result_name, "no subscribers", "Failure", "", "")
               ELSE st1
    IN  [st2 EXCEPT !.ret = NoErr, !.picked = asResult, !.finished = TRUE]

\* call_resthook.go:95-103: Execute returns the error
payloadFailed_ExitsRun(st, err) ==
    [fault(st, err) EXCEPT !.ret = err, !.control.status = "failed"]

payloadFailed(st, err) == [fault(st, err) EXCEPT !.ret = err]

\* CallResthookAction.Execute
CallResthookExecute(a, st, reg, assets, in) ==
    LET resthook == FindBySlug(assets, a.resthook)
    IN  IF resthook = NoResthook THEN [st EXCEPT !.ret = NoErr]
        ELSE IF in.payload.err # NoErr
        THEN payloadFailed(st, "error evaluating resthook payload")
        ELSE IF ~payloadValid(in.payload.val)
        THEN payloadFailed(st, "resthook payload evaluation produced invalid JSON")
        ELSE
        LET st1 == logEvent(st, NewResthookCalled(a.resthook, in.payload.val))
            loop == subscriberLoop(a, st1, reg, resthook.subscribers, in.payload.val,
                                   in.outs, 1)
        IN  IF loop.done THEN loop.st
            ELSE finish(a, loop.st)

----------------------------------------------------------------------------
(* The state machine: the step pump executes one action of the current node on  *)
(* a run that is new or has executed a webhook before                          *)

\* the sequences that hold every element of S once: the orders a Go map can be
\* ranged over
Orders(S) ==
    { o \in [1..Cardinality(S) -> S] : \A i, j \in 1..Cardinality(S) : o[i] = o[j] => i = j }

\* the outcome of run.EvaluateTemplate: a value and an error
Evals(values, err) == [val : values, err : {NoErr, err}]

\* the error of a header's value template that fails to evaluate: it names the
\* expression, which differs from header to header
HeaderError(key) == "error evaluating header " \o key

\* the value a header's template evaluates to: each header has a template of its own
HeaderValue(key) == "value of " \o key

\* the outcomes of evaluating the value templates of the headers of an action
HeaderEvals(keys) ==
    { [k \in keys |-> [val |-> HeaderValue(k),
                        err |-> IF k \in bad THEN HeaderError(k) ELSE NoErr]] :
        bad \in SUBSET keys }

\* the outcome of svc.Call: a call record (by its answer) or none, and an error
Outcomes == [reply : Replies \cup {NoCall}, err : {NoErr, "webhook call failed"}]

WebhookActions ==
    [type : {TypeCallWebhook}, method : Methods, body : {"", "@body"},
     headers : {h \in SUBSET HeaderKeys : Cardinality(h) <= MaxHeaders},
     result_name : ResultNames, response_as_extra : BOOLEAN]

ResthookActions == [type : {TypeCallResthook}, resthook : Slugs, result_name : ResultNames]

\* no wait: Session.Wait() is nil
NoWait == [type |-> "none", run |-> "", node |-> ""]

\* the control state of a session whose first run has an open step at its first
\* node: the state the step pump is in when it calls Execute
OpenStep ==
    [path |-> <<[node |-> "w1", exit |-> ""]>>, status |-> "active",
     stack |-> <<"run-1">>, wait |-> NoWait]

\* the run, the log, the service's inbox and the control state
Before ==
    [events |-> events, webhook |-> webhook, results |-> results, requests |-> requests,
     control |-> control]

\* what an Execute works on: the state before it, nothing returned, called or failed
Work(before) ==
    [events |-> before.events, webhook |-> before.webhook, results |-> before.results,
     requests |-> before.requests, control |-> before.control,
     ret |-> NoErr, calls |-> <<>>, picked |-> NoCall, finished |-> FALSE,
     faults |-> <<>>, trace |-> <<>>]

Run == Work(Before)

\* a run that has executed nothing
NewRun ==
    [events |-> <<>>, webhook |-> NoWebhook, results |-> <<>>, requests |-> <<>>,
     control |-> OpenStep]

\* a run that has executed a call_webhook action whose call was answered with 200
\* and JSON: with a webhook service, run.webhook and a result are set
EarlierRun(reg) ==
    LET a == [type |-> TypeCallWebhook, method |-> "POST", body |-> "", headers |-> {},
              result_name |-> "Earlier", response_as_extra |-> TRUE]
        in == [url |-> [val |-> "http://hook/x", err |-> NoErr], body |-> NoEval,
               order |-> <<>>, headers |-> <<>>,
               out |-> [reply |-> [status_code |-> 200, response |-> "{\"ok\":true}"],
                        err |-> NoErr]]
        st == CallWebhookExecute(a, Work(NewRun), reg, in)
    IN  [events |-> st.events, webhook |-> st.webhook, results |-> st.results,
         requests |-> st.requests, control |-> st.control]

\* no action executed, and nothing given to it
NoAction == [type |-> "none"]
NoInputs == [none |-> TRUE]

NoExec ==
    [type |-> "none", resthook |-> "", result_name |-> "", method |-> "", url |-> NoEval,
     payload |-> NoEval, pre |-> NewRun, action |-> NoAction, inputs |-> NoInputs,
     ret |-> NoErr, calls |-> <<>>, picked |-> NoCall, finished |-> FALSE,
     faults |-> <<>>, trace |-> <<>>]

----------------------------------------------------------------------------
(* The session: its runs, stack, wait and step pump, and its serialised form. *)
(* The engine's session is described by its contract and is driven by       *)
(* runFlow of cmd/flowrunner/runner_test.go                                  *)

NoNode == ""
NoInput == ""

\* Op applied to the value of v, which is worked out once
With(v, Op(_)) == CHOOSE r \in {Op(x) : x \in {v}} : TRUE

SendMsg(text) == [type |-> "send_msg", text |-> text]
EnterFlow(flow) == [type |-> "enter_flow", flow |-> flow]
CallWebhook ==
    [type |-> TypeCallWebhook, method |-> "get", body |-> "", headers |-> {},
     result_name |-> "Hook Result", response_as_extra |-> TRUE]

\* a node: its actions in declaration order, whether its router waits for a
\* message (whose text it saves as the result), and where its exit leads
Node(uuid, actions, wait, result, dest) ==
    [uuid |-> uuid, actions |-> actions, wait |-> wait, result |-> result, dest |-> dest]

\* the flow assets of the flow tests: two questions, a parent entering a child
\* that asks a question, a node whose exit leads to itself, two flows entering
\* each other, a webhook followed by a question
FlowAssets ==
    { [uuid |-> "two_questions",
       nodes |-> << Node("q1", <<SendMsg("name?")>>, TRUE, "Name", "q2"),
                    Node("q2", <<SendMsg("age?")>>, TRUE, "Age", "q3"),
                    Node("q3", <<SendMsg("thanks")>>, FALSE, "", NoNode) >>],
      [uuid |-> "subflow",
       nodes |-> << Node("p1", <<SendMsg("hi")>>, FALSE, "", "N"),
                    Node("N", <<EnterFlow("child")>>, FALSE, "", "p3"),
                    Node("p3", <<SendMsg("bye")>>, FALSE, "", NoNode) >>],
      [uuid |-> "child",
       nodes |-> << Node("c1", <<SendMsg("child?")>>, TRUE, "Name", NoNode) >>],
      [uuid |-> "node_loop",
       nodes |-> << Node("l1", <<SendMsg("again")>>, FALSE, "", "l1") >>],
      [uuid |-> "subflow_loop",
       nodes |-> << Node("s1", <<EnterFlow("subflow_loop_child")>>, FALSE, "", NoNode) >>],
      [uuid |-> "subflow_loop_child",
       nodes |-> << Node("sc1", <<EnterFlow("subflow_loop")>>, FALSE, "", NoNode) >>],
      [uuid |-> "webhook_persists",
       nodes |-> << Node("w1", <<CallWebhook>>, TRUE, "Name", "w2"),
                    Node("w2", <<SendMsg("done")>>, FALSE, "", NoNode) >>] }

\* the flows the flow tests trigger
flowTests ==
    {"two_questions", "subflow", "node_loop", "subflow_loop", "webhook_persists"}

\* the flows whose nodes lead back to themselves without a wait
LoopFlows == {"node_loop", "subflow_loop"}

\* the texts of the messages runFlow resumes with
MsgTexts == {"Bob", "27"}

FlowOf(uuid) == CHOOSE f \in FlowAssets : f.uuid = uuid
Entry(uuid) == FlowOf(uuid).nodes[1].uuid
NodeOf(flow, node) ==
    LET nodes == FlowOf(flow).nodes
    IN  nodes[CHOOSE i \in 1..Len(nodes) : nodes[i].uuid = node]
ExitOf(node) == node.uuid \o ":exit"

\* the seeded UUID generator: the uuid of the n-th run of a session
RunUUID(n) == "run-" \o Itoa(n)

\* engine.NewSession; requests are the requests the actions of this session have
\* handed to the webhook service
NewSession ==
    [status |-> "active", runs |-> <<>>, stack |-> <<>>, wait |-> NoWait,
     input |-> NoInput, log |-> <<>>, visited |-> <<>>, next |-> NoNode,
     requests |-> <<>>]

\* runFlow before it starts a session; webhook_kept says whether the serialised
\* form of a run has a field for run.webhook
NewDriver ==
    [pc |-> "new", flow |-> "", resumes |-> 0, reads |-> 0, webhook_kept |-> FALSE]

NewFlowRun(uuid, flow, parent) ==
    [uuid |-> uuid, flow_uuid |-> flow, parent_uuid |-> parent, status |-> "active",
     path |-> <<>>, results |-> <<>>, webhook |-> NoWebhook]

\* parent runs are found by UUID in the session's run list
RunIndex(s, uuid) == CHOOSE i \in 1..Len(s.runs) : s.runs[i].uuid = uuid
\* the run on top of the stack
Top(s) == RunIndex(s, s.stack[Len(s.stack)])
\* the node of the last step of a run's path
CurrentNode(run) == run.path[Len(run.path)].node

\* Session.Wait, Session.Events, Session.Runs
Wait(s) == s.wait
Events(s) == s.log
Runs(s) == s.runs

logged(s, e) == [s EXCEPT !.log = Append(@, e)]

\* a run of the flow is added to the session and pushed on its stack; it begins at
\* the flow's entry node
pushRun(s, flow, parent) ==
    [s EXCEPT !.runs = Append(@, NewFlowRun(RunUUID(Len(@) + 1), flow, parent)),
              !.stack = Append(@, RunUUID(Len(s.runs) + 1)),
              !.next = Entry(flow)]

enterFlow_Orphan(s, flow) ==
    pushRun(logged(s, [type |-> "flow_entered", flow |-> flow]), flow, "")

\* enter_flow: pushes a child run whose parent is the current run
enterFlow(s, flow) ==
    pushRun(logged(s, [type |-> "flow_entered", flow |-> flow]), flow,
            s.runs[Top(s)].uuid)

\* Session.Start: the run of the trigger's flow is pushed and the pump begins
Start(s, flow) == [pushRun(s, flow, "") EXCEPT !.status = "active", !.visited = <<>>]

\* an invariant violation: the session fails and is frozen
failSession(s, text) ==
    [logged(s, NewError(text)) EXCEPT
        !.status = "failed",
        !.runs = [k \in 1..Len(s.runs) |->
                    IF s.runs[k].status \in {"active", "waiting"}
                    THEN [s.runs[k] EXCEPT !.status = "failed"] ELSE s.runs[k]],
        !.stack = <<>>, !.wait = NoWait, !.next = NoNode]

\* the control state an action is executed in
ControlOf(s) ==
    [path |-> s.runs[Top(s)].path, status |-> s.runs[Top(s)].status,
     stack |-> s.stack, wait |-> s.wait]

\* the pump executes a call_webhook action on the current run
executeWebhook(s, a, reg, out) ==
    LET i == Top(s)
        run == s.runs[i]
        in == [url |-> [val |-> "http://hook/x", err |-> NoErr], body |-> NoEval,
               order |-> <<>>, headers |-> <<>>, out |-> out]
        \* what the Execute that ended in st leaves of the session
        after(st) ==
            [s EXCEPT !.log = st.events, !.requests = st.requests,
                      !.runs[i].webhook = st.webhook,
                      !.runs[i].results = st.results,
                      !.runs[i].path = st.control.path,
                      !.runs[i].status = st.control.status,
                      !.stack = st.control.stack, !.wait = st.control.wait]
    IN  With(CallWebhookExecute(a,
                 Work([events |-> s.log, webhook |-> run.webhook,
                       results |-> run.results, requests |-> s.requests,
                       control |-> ControlOf(s)]),
                 reg, in),
             LAMBDA st : IF st.ret # NoErr
                         THEN With(after(st), LAMBDA s1 : failSession(s1, st.ret))
                         ELSE after(st))

execute(s, a, reg, out) ==
    CASE a.type = "send_msg" -> logged(s, [type |-> "msg_created", text |-> a.text])
      [] a.type = "enter_flow" -> enterFlow(s, a.flow)
      [] a.type = TypeCallWebhook -> executeWebhook(s, a, reg, out)

\* step 2 of the pump: the actions of the node in declaration order (enter_flow is
\* the last action of its node)
RECURSIVE executeActions(_, _, _, _, _)
executeActions(s, actions, i, reg, out) ==
    IF i > Len(actions) \/ s.status = "failed" THEN s
    ELSE With(execute(s, actions[i], reg, out),
              LAMBDA s1 : executeActions(s1, actions, i + 1, reg, out))

\* the open step of run i is closed with the chosen exit
closeStep(s, i, exit) ==
    [s EXCEPT !.runs[i].path[Len(s.runs[i].path)].exit = exit]

\* a run that reached a null destination completes and is popped
popRun(s) ==
    [s EXCEPT !.runs[Top(s)].status = "completed",
              !.stack = SubSeq(@, 1, Len(@) - 1)]

emptied_StillActive(s) == [s EXCEPT !.next = NoNode]

\* the stack emptied: the session is completed
emptied(s) == [s EXCEPT !.status = "completed", !.next = NoNode]

\* step 4 of the pump: the destination of the chosen exit is the next node; at a
\* null destination the run completes and is popped, and control returns to the
\* parent at the router of its enter_flow node, which exits
RECURSIVE leave(_, _)
leave(s, dest) ==
    IF dest # NoNode THEN [s EXCEPT !.next = dest]
    ELSE With(popRun(s), LAMBDA s1 :
            IF s1.stack = <<>> THEN emptied(s1)
            ELSE LET p == Top(s1)
                     node == NodeOf(s1.runs[p].flow_uuid, CurrentNode(s1.runs[p]))
                 IN  With(closeStep(s1, p, ExitOf(node)),
                          LAMBDA s2 : leave(s2, node.dest)))

\* step 3 of the pump when the router waits: the wait is installed
installWait(s, node) ==
    [s EXCEPT !.wait = [type |-> "msg", run |-> s.runs[Top(s)].uuid, node |-> node.uuid],
              !.runs[Top(s)].status = "waiting",
              !.status = "waiting"]

Count(seq, x) == Cardinality({i \in 1..Len(seq) : seq[i] = x})

loopDetected_Never(visited, node) == FALSE

\* loop protection: the caps on node visits and on visits to the same node
loopDetected(visited, node) ==
    \/ Len(visited) >= MaxNodeVisits
    \/ Count(visited, node) >= MaxSameNodeVisits

loopError(node) == "flow loop detected at node " \o node

\* one iteration of the step pump: the visit of the next node of the top run
visit(s, reg, out) ==
    IF loopDetected(s.visited, s.next) THEN failSession(s, loopError(s.next))
    ELSE LET i == Top(s)
             node == NodeOf(s.runs[i].flow_uuid, s.next)
             s1 == [s EXCEPT !.runs[i].path = Append(@, [node |-> node.uuid, exit |-> ""]),
                             !.visited = Append(@, node.uuid),
                             !.next = NoNode]
         IN  With(executeActions(s1, node.actions, 1, reg, out), LAMBDA s2 :
                IF s2.status = "failed" THEN s2
                ELSE IF Len(s2.stack) > Len(s.stack) THEN s2
                ELSE IF node.wait THEN installWait(s2, node)
                ELSE With(closeStep(s2, i, ExitOf(node)),
                          LAMBDA s3 : leave(s3, node.dest)))

\* the pump stops: a wait is installed, the stack is empty or the session failed
pumpDone(s) == s.wait # NoWait \/ s.stack = <<>> \/ s.status = "failed"

callerEvent_Reset(s, e) == [s EXCEPT !.log = <<e>>]

\* the caller's event is appended to the log
callerEvent(s, e) == logged(s, e)

\* the router of the node that waited saves the text of the message as its result
saveInput(s, i, name, text) ==
    LET result == [name |-> name, value |-> text, category |-> "All Responses",
                   input |-> text, extra |-> ""]
        key == Snakify(name)
        old == s.runs[i].results
    IN  logged([s EXCEPT !.runs[i].results =
                    [k \in DOMAIN old \cup {key} |-> IF k = key THEN result ELSE old[k]]],
               NewRunResultChanged(result))

\* Session.Resume of a waiting session: the message is logged, the wait cleared and
\* the router of the node that installed the wait picks its exit
Resume(s, text) ==
    LET i == RunIndex(s, s.wait.run)
        node == NodeOf(s.runs[i].flow_uuid, s.wait.node)
        s1 == [callerEvent(s, [type |-> "msg_received", text |-> text])
                  EXCEPT !.input = text, !.wait = NoWait, !.status = "active",
                         !.runs[i].status = "active", !.visited = <<>>]
    IN  With(saveInput(s1, i, node.result, text), LAMBDA s2 :
            With(closeStep(s2, i, ExitOf(node)), LAMBDA s3 : leave(s3, node.dest)))

\* the keys of results in lexicographic order
ResultKeys == <<"age", "earlier", "hook_result", "name">>

\* a map of results as a JSON object: its pairs in the order of their keys
marshalResults(res) ==
    LET keys == SelectSeq(ResultKeys, LAMBDA k : k \in DOMAIN res)
    IN  [j \in 1..Len(keys) |-> <<keys[j], res[keys[j]]>>]

unmarshalResults(pairs) ==
    [k \in {pairs[j][1] : j \in 1..Len(pairs)} |->
        pairs[CHOOSE j \in 1..Len(pairs) : pairs[j][1] = k][2]]

\* a run in the session JSON. Its fields are uuid, flow_uuid, parent_uuid, status,
\* path and results; whether run.webhook is one more field is not settled by the
\* description of the form (the list of run fields has none, the webhook_persists
\* scenario has the value preserved), so the form is modelled with and without it
marshalRun(run, keep) ==
    IF keep
    THEN [uuid |-> run.uuid, flow_uuid |-> run.flow_uuid, parent_uuid |-> run.parent_uuid,
          status |-> run.status, path |-> run.path,
          results |-> marshalResults(run.results), webhook |-> run.webhook]
    ELSE [uuid |-> run.uuid, flow_uuid |-> run.flow_uuid, parent_uuid |-> run.parent_uuid,
          status |-> run.status, path |-> run.path,
          results |-> marshalResults(run.results)]

\* a run read from the session JSON: without a field for it, run.webhook is unset
unmarshalRun(data) ==
    [uuid |-> data.uuid, flow_uuid |-> data.flow_uuid, parent_uuid |-> data.parent_uuid,
     status |-> data.status, path |-> data.path,
     results |-> unmarshalResults(data.results),
     webhook |-> IF "webhook" \in DOMAIN data THEN data.webhook ELSE NoWebhook]

\* json.Marshal of a session: status, wait, input and the runs; neither the event
\* log nor the stack is part of it
Serialize(s, keep) ==
    [status |-> s.status, wait |-> s.wait, input |-> s.input,
     runs |-> [i \in 1..Len(s.runs) |-> marshalRun(s.runs[i], keep)]]

\* the runs from the root down to run i, by parent UUID
RECURSIVE chain(_, _)
chain(runs, i) ==
    IF runs[i].parent_uuid = "" THEN <<runs[i].uuid>>
    ELSE Append(chain(runs, CHOOSE p \in 1..Len(runs) : runs[p].uuid = runs[i].parent_uuid),
                runs[i].uuid)

\* the stack of a session read back: the unfinished run no unfinished run is a
\* child of, under its ancestors
readStack(runs) ==
    LET open == {i \in 1..Len(runs) : runs[i].status \in {"active", "waiting"}}
        leaves == {i \in open : \A j \in open : runs[j].parent_uuid # runs[i].uuid}
    IN  IF leaves = {} THEN <<>> ELSE chain(runs, CHOOSE i \in leaves : TRUE)

\* engine.ReadSession: a session from its serialised form; its log is empty
ReadSession(data) ==
    LET runs == [i \in 1..Len(data.runs) |-> unmarshalRun(data.runs[i])]
    IN  [status |-> data.status, runs |-> runs, stack |-> readStack(runs),
         wait |-> data.wait, input |-> data.input, log |-> <<>>, visited |-> <<>>,
         next |-> NoNode, requests |-> <<>>]

Init ==
    /\ services \in {newEmptyServices, WithWebhookServiceFactory(newEmptyServices)}
    /\ resthooks = ResthookAssets
    /\ \E run \in {NewRun, EarlierRun(services)} :
          /\ events = run.events
          /\ webhook = run.webhook
          /\ results = run.results
          /\ requests = run.requests
          /\ control = run.control
    /\ exec = NoExec
    /\ persisted = NewSession
    /\ memory = NewSession
    /\ driver = NewDriver

\* the state after an Execute that ended in st
Executed(st, record) ==
    /\ events' = st.events
    /\ webhook' = st.webhook
    /\ results' = st.results
    /\ requests' = st.requests
    /\ control' = st.control
    /\ exec' = [record EXCEPT !.pre = Before, !.ret = st.ret, !.calls = st.calls,
                               !.picked = st.picked, !.finished = st.finished,
                               !.faults = st.faults, !.trace = st.trace]
    /\ UNCHANGED <<services, resthooks, persisted, memory, driver>>

\* the step pump executes a call_webhook action of the current node
ExecuteCallWebhook ==
    /\ exec.type = "none"
    /\ \E a \in WebhookActions :
       \E url \in Evals(URLValues, "error evaluating url"),
          body \in Evals({"body"}, "error evaluating body"),
          order \in Orders(a.headers),
          headers \in HeaderEvals(a.headers),
          out \in Outcomes :
            Executed(CallWebhookExecute(a, Run, services,
                         [url |-> url, body |-> body, order |-> order,
                          headers |-> headers, out |-> out]),
                     [NoExec EXCEPT !.type = a.type, !.result_name = a.result_name,
                                    !.method = a.method, !.url = url, !.action = a,
                                    !.inputs = [url |-> url, body |-> body,
                                                headers |-> headers, out |-> out]])

\* the number of leading subscribers of the resthook a request can be built for:
\* the service is called for no other, so these are the calls that have an outcome
RECURSIVE Callable(_)
Callable(subs) ==
    IF subs = <<>> \/ NewRequestErr("POST", Head(subs)) # NoErr THEN 0
    ELSE 1 + Callable(Tail(subs))

CallableOf(assets, slug) ==
    IF FindBySlug(assets, slug) = NoResthook THEN 0
    ELSE Callable(FindBySlug(assets, slug).subscribers)

\* the step pump executes a call_resthook action of the current node
ExecuteCallResthook ==
    /\ exec.type = "none"
    /\ \E a \in ResthookActions :
       \E payload \in Evals(Payloads, "error evaluating @(json(...))"),
          outs \in [1..CallableOf(resthooks, a.resthook) -> Outcomes] :
            Executed(CallResthookExecute(a, Run, services, resthooks,
                         [payload |-> payload, outs |-> outs]),
                     [NoExec EXCEPT !.type = a.type, !.result_name = a.result_name,
                                    !.resthook = a.resthook, !.payload = payload])

Next == ExecuteCallResthook \/ ExecuteCallWebhook

Spec == Init /\ [][Next]_vars

----------------------------------------------------------------------------
(* The state machine of runFlow: runner_test.go:74-140 *)

\* the answers of the webhook service to the call of a flow's call_webhook action
WebhookOutcomes == [reply : Replies, err : {NoErr}]

SessionInit ==
    /\ services \in {newEmptyServices, WithWebhookServiceFactory(newEmptyServices)}
    /\ resthooks = ResthookAssets
    /\ events = NewRun.events
    /\ webhook = NewRun.webhook
    /\ results = NewRun.results
    /\ requests = NewRun.requests
    /\ control = NewRun.control
    /\ exec = NoExec
    /\ persisted = NewSession
    /\ memory = NewSession
    /\ driver = NewDriver

ActionState == <<services, resthooks, events, webhook, results, requests, exec, control>>

\* where runFlow is after a Start, a Resume or an iteration of their pump: the
\* call has returned when the pump of either session has stopped
Pumped(s, m) == IF pumpDone(s) /\ pumpDone(m) THEN "returned" ELSE "pumping"

\* an iteration of the pump, if it has not stopped
pump(s, reg, out) == IF pumpDone(s) THEN s ELSE visit(s, reg, out)

\* runner_test.go:103: session.Start(trigger, callerEvents[0])
StartSession ==
    /\ driver.pc = "new"
    /\ \E flow \in flowTests, keep \in BOOLEAN :
          /\ persisted' = Start(persisted, flow)
          /\ memory' = Start(memory, flow)
          /\ driver' = [driver EXCEPT !.pc = "pumping", !.flow = flow,
                                      !.webhook_kept = keep]
    /\ UNCHANGED ActionState

\* the requests the session handed to the webhook service in the step from s to t
handed(s, t) == SubSeq(t.requests, Len(s.requests) + 1, Len(t.requests))

\* one iteration of the pump of Start or Resume, on both sessions; the webhook
\* service receives the requests of the session runFlow drives
PumpStep ==
    /\ driver.pc = "pumping"
    /\ \E out \in WebhookOutcomes :
       \E s \in {pump(persisted, services, out)}, m \in {pump(memory, services, out)} :
          /\ persisted' = s
          /\ memory' = m
          /\ requests' = requests \o handed(persisted, s)
          /\ driver' = [driver EXCEPT !.pc = Pumped(s, m)]
    /\ UNCHANGED <<services, resthooks, events, webhook, results, exec, control>>

\* the session that is never serialised is resumed with the same events
resumed(m, text) == IF Wait(m) = NoWait THEN m ELSE Resume(m, text)

\* runner_test.go:111-132: the session is marshalled and read back; without a wait
\* runFlow returns an error, else the session is resumed with the next events
ResumeSession ==
    /\ driver.pc = "returned"
    /\ driver.resumes < MaxResumes
    /\ \E text \in MsgTexts :
       \E read \in {ReadSession(Serialize(persisted, driver.webhook_kept))} :
          IF Wait(read) = NoWait
          THEN /\ persisted' = read
               /\ memory' = memory
               /\ driver' = [driver EXCEPT !.pc = "error", !.reads = @ + 1]
          ELSE \E s \in {Resume(read, text)}, m \in {resumed(memory, text)} :
               /\ persisted' = s
               /\ memory' = m
               /\ driver' = [driver EXCEPT !.pc = Pumped(s, m),
                                           !.resumes = @ + 1, !.reads = @ + 1]
    /\ UNCHANGED ActionState

\* runner_test.go:135-140: the last output is marshalled and runFlow returns
Finish ==
    /\ driver.pc = "returned"
    /\ driver' = [driver EXCEPT !.pc = "done"]
    /\ UNCHANGED <<persisted, memory>>
    /\ UNCHANGED ActionState

SessionNext == StartSession \/ PumpStep \/ ResumeSession \/ Finish

SessionSpec == SessionInit /\ [][SessionNext]_vars

----------------------------------------------------------------------------
(* What the claims speak of *)

IsWebhook == exec.type = TypeCallWebhook
IsResthook == exec.type = TypeCallResthook

\* the events the last Execute logged
NewEvents == SubSeq(events, Len(exec.pre.events) + 1, Len(events))

\* the requests the webhook service received during the last Execute
NewRequests == SubSeq(requests, Len(exec.pre.requests) + 1, Len(requests))

OfType(log, type) == SelectSeq(log, LAMBDA e : e.type = type)

\* the last Execute changed nothing of the run and called no service
RunUntouched ==
    /\ webhook = exec.pre.webhook
    /\ results = exec.pre.results
    /\ requests = exec.pre.requests

\* the resthook of the last call_resthook is an asset, and its subscribers
ResthookKnown == IsResthook /\ \E r \in resthooks : r.slug = exec.resthook
Subscribers == (CHOOSE r \in resthooks : r.slug = exec.resthook).subscribers

\* the payload of the last call_resthook evaluated without error to valid JSON
PayloadGood == exec.payload.err = NoErr /\ exec.payload.val = "{\"contact\":{}}"

Is2xx(code) == 200 <= code /\ code <= 299

----------------------------------------------------------------------------
(* C1 *)

\* C1: the call picked by call_resthook is the last call that is neither 2xx nor
\* 410 if there is one (status code 0 included), else the last 2xx call if there
\* is one, else the last 410 call; none is picked iff no call was collected.
C1_PickPrecedence ==
    (IsResthook /\ exec.finished) =>
        LET calls == exec.calls
            failures == {i \in 1..Len(calls) :
                            ~Is2xx(calls[i].status_code) /\ calls[i].status_code # 410}
            successes == {i \in 1..Len(calls) : Is2xx(calls[i].status_code)}
            gone == {i \in 1..Len(calls) : calls[i].status_code = 410}
        IN  /\ failures # {} => exec.picked = calls[Max(failures)]
            /\ (failures = {} /\ successes # {}) => exec.picked = calls[Max(successes)]
            /\ (failures = {} /\ successes = {} /\ gone # {}) =>
                    exec.picked = calls[Max(gone)]
            /\ (exec.picked = NoCall) <=> (calls = <<>>)

\* three calls answered 0, 200 and 410: the first one, a connection failure, is picked
C1_Witness ==
    /\ IsResthook /\ exec.finished
    /\ Len(exec.calls) = 3
    /\ exec.calls[1].status_code = 0
    /\ exec.calls[2].status_code = 200
    /\ exec.calls[3].status_code = 410
    /\ exec.picked = exec.calls[1]

----------------------------------------------------------------------------
(* C2 *)

URLsOf(log) == [i \in 1..Len(log) |-> log[i].url]

\* s is t with some of its elements left out
RECURSIVE IsSubsequence(_, _)
IsSubsequence(s, t) ==
    IF s = <<>> THEN TRUE
    ELSE IF t = <<>> THEN FALSE
    ELSE IF Head(s) = Head(t) THEN IsSubsequence(Tail(s), Tail(t))
    ELSE IsSubsequence(s, Tail(t))

\* the claim as stated: against a known resthook with a valid payload the events
\* logged are exactly one resthook_called followed by one webhook_called per
\* subscriber URL, in subscriber order (read in its favour: the event of the
\* result that result_name asks for is not counted)
C2_Original ==
    (ResthookKnown /\ PayloadGood) =>
        LET log == SelectSeq(NewEvents, LAMBDA e : e.type # "run_result_changed")
        IN  /\ Len(log) = 1 + Len(Subscribers)
            /\ log[1].type = "resthook_called"
            /\ \A i \in 1..Len(Subscribers) :
                  /\ log[i + 1].type = "webhook_called"
                  /\ log[i + 1].url = Subscribers[i]

\* C2 (amended): against a known resthook with a valid payload the first event
\* logged is the only resthook_called event, with the payload; the webhook_called
\* events that follow are one per call record the webhook service returned, in
\* subscriber order, each for the resthook and for its subscriber's URL; the
\* service is called for the subscribers in order; the log holds besides only
\* error events and, last, the result event when result_name is set; and with a
\* call record for every subscriber there is one webhook_called per subscriber.
C2_ResthookEvents ==
    (ResthookKnown /\ PayloadGood) =>
        LET called == OfType(NewEvents, "webhook_called")
        IN  /\ Len(NewEvents) >= 1
            /\ NewEvents[1] = [type |-> "resthook_called", resthook |-> exec.resthook,
                               payload |-> exec.payload.val]
            /\ Len(OfType(NewEvents, "resthook_called")) = 1
            /\ Len(called) = Len(exec.calls)
            /\ URLsOf(called) = URLsOf(exec.calls)
            /\ \A i \in 1..Len(called) : called[i].resthook = exec.resthook
            /\ IsSubsequence(URLsOf(called), Subscribers)
            /\ URLsOf(NewRequests) = SubSeq(Subscribers, 1, Len(NewRequests))
            /\ IsSubsequence(URLsOf(called), URLsOf(NewRequests))
            /\ \A i \in 2..Len(NewEvents) :
                  \/ NewEvents[i].type \in {"webhook_called", "error"}
                  \/ /\ NewEvents[i].type = "run_result_changed"
                     /\ i = Len(NewEvents)
                     /\ exec.result_name # ""
            /\ Len(exec.calls) = Len(Subscribers) => URLsOf(called) = Subscribers

\* three subscribers, the second without a call record: two webhook_called events,
\* for the first and the third, and an error event between them
C2_Witness ==
    /\ ResthookKnown /\ PayloadGood
    /\ Len(Subscribers) = 3
    /\ Len(NewRequests) = 3
    /\ URLsOf(OfType(NewEvents, "webhook_called")) = <<Subscribers[1], Subscribers[3]>>
    /\ Len(OfType(NewEvents, "error")) = 1

----------------------------------------------------------------------------
(* C3 *)

\* C3: the status of a webhook_called event is a function of its status code: for
\* call_webhook 0 gives connection_error, 2xx success and every other code, 410
\* included, response_error; subscriber_gone is the status of a resthook call
\* with code 410 only, and otherwise a resthook call has the status call_webhook
\* gives.
C3_StatusOfCode ==
    \A i \in 1..Len(events) :
        events[i].type = "webhook_called" =>
            LET e == events[i]
                plain == IF e.status_code = 0 THEN "connection_error"
                         ELSE IF Is2xx(e.status_code) THEN "success"
                         ELSE "response_error"
            IN  /\ e.resthook = "" => e.status = plain
                /\ e.resthook # "" =>
                      e.status = (IF e.status_code = 410 THEN "subscriber_gone" ELSE plain)
                /\ e.status = "subscriber_gone" => (e.resthook # "" /\ e.status_code = 410)

\* call_webhook was answered 410 and logged response_error
C3_Witness ==
    /\ IsWebhook
    /\ Len(NewEvents) >= 1
    /\ \E i \in 1..Len(NewEvents) :
          /\ NewEvents[i].type = "webhook_called"
          /\ NewEvents[i].resthook = ""
          /\ NewEvents[i].status_code = 410
          /\ NewEvents[i].status = "response_error"

----------------------------------------------------------------------------
(* C4 *)

\* C4: if the url of call_webhook evaluates to the empty string or to an invalid
\* URL, Execute returns nil having logged only error events, the last of them for
\* the url; no webhook_called event is logged, the webhook service is not called,
\* run.webhook is unchanged and no result is saved, whatever result_name is.
C4_BadURLStops ==
    (IsWebhook /\ exec.url.val \in {"", BadURL}) =>
        /\ exec.ret = NoErr
        /\ Len(NewEvents) = (IF exec.url.err # NoErr THEN 2 ELSE 1)
        /\ \A i \in 1..Len(NewEvents) : NewEvents[i].type = "error"
        /\ NewEvents[Len(NewEvents)].text =
              (IF exec.url.val = "" THEN "webhook URL evaluated to empty string"
               ELSE "webhook URL evaluated to an invalid URL")
        /\ RunUntouched
        /\ SubSeq(events, 1, Len(exec.pre.events)) = exec.pre.events

\* an invalid url, result_name set, on a run that holds a webhook value
C4_Witness ==
    /\ IsWebhook
    /\ exec.url.val = BadURL
    /\ exec.result_name # ""
    /\ exec.pre.webhook # NoWebhook
    /\ services.webhook.err = NoErr

----------------------------------------------------------------------------
(* C5 *)

\* the key a result is saved under, for the result names of the claims
KeyOf(name) == IF name = "Hook Result" THEN "hook_result" ELSE name

\* the results other than the one under the key are those the run had
OtherResultsKept(key) ==
    /\ DOMAIN exec.pre.results \subseteq DOMAIN results
    /\ DOMAIN results \subseteq DOMAIN exec.pre.results \cup {key}
    /\ \A k \in DOMAIN exec.pre.results : k # key => results[k] = exec.pre.results[k]

\* C5: when call_webhook obtained a call record and result_name is set, exactly one
\* result is saved, under that name, with category Success when the status of the
\* call's webhook_called event is success and Failure otherwise; when result_name
\* is empty or no call record was obtained, no result is saved.
C5_WebhookResult ==
    IsWebhook =>
        LET saved == OfType(NewEvents, "run_result_changed")
            called == OfType(NewEvents, "webhook_called")
        IN  /\ Len(called) = Len(exec.calls)
            /\ Len(called) <= 1
            /\ (Len(called) = 1 /\ exec.result_name # "") =>
                  /\ Len(saved) = 1
                  /\ saved[1].name = exec.result_name
                  /\ saved[1].category =
                        (IF called[1].status = "success" THEN "Success" ELSE "Failure")
                  /\ KeyOf(exec.result_name) \in DOMAIN results
                  /\ results[KeyOf(exec.result_name)].name = exec.result_name
                  /\ results[KeyOf(exec.result_name)].category = saved[1].category
                  /\ OtherResultsKept(KeyOf(exec.result_name))
            /\ (Len(called) = 0 \/ exec.result_name = "") =>
                  /\ Len(saved) = 0
                  /\ results = exec.pre.results

\* a call answered 500 with result_name set: one Failure result, beside the result
\* the run already had
C5_Witness ==
    /\ IsWebhook
    /\ exec.result_name = "Hook Result"
    /\ Len(exec.calls) = 1
    /\ exec.calls[1].status_code = 500
    /\ DOMAIN results = {"earlier", "hook_result"}
    /\ results["hook_result"].category = "Failure"

----------------------------------------------------------------------------
(* C6 *)

\* the claim as stated: with no subscribers a "no subscribers" Failure result is
\* recorded, resthook_called and the result event are the only events, the service
\* is not called and run.webhook is unchanged
C6_Original ==
    (ResthookKnown /\ PayloadGood /\ Subscribers = <<>>) =>
        /\ Len(NewEvents) = 2
        /\ NewEvents[1].type = "resthook_called"
        /\ NewEvents[2].type = "run_result_changed"
        /\ NewEvents[2].value = "no subscribers"
        /\ NewEvents[2].category = "Failure"
        /\ requests = exec.pre.requests
        /\ webhook = exec.pre.webhook

\* C6 (amended): if the resthook has no subscribers then, when result_name is set,
\* a result with value "no subscribers" and category Failure is recorded under it
\* and the events logged are resthook_called and the result event; when
\* result_name is empty no result is recorded and resthook_called is the only
\* event; either way the webhook service is not called and run.webhook is
\* unchanged.
C6_NoSubscribers ==
    (ResthookKnown /\ PayloadGood /\ Subscribers = <<>>) =>
        /\ exec.ret = NoErr
        /\ requests = exec.pre.requests
        /\ webhook = exec.pre.webhook
        /\ NewEvents[1].type = "resthook_called"
        /\ exec.result_name # "" =>
              /\ Len(NewEvents) = 2
              /\ NewEvents[2] = [type |-> "run_result_changed", name |-> exec.result_name,
                                 value |-> "no subscribers", category |-> "Failure"]
              /\ KeyOf(exec.result_name) \in DOMAIN results
              /\ results[KeyOf(exec.result_name)].value = "no subscribers"
              /\ results[KeyOf(exec.result_name)].category = "Failure"
              /\ OtherResultsKept(KeyOf(exec.result_name))
        /\ exec.result_name = "" =>
              /\ Len(NewEvents) = 1
              /\ results = exec.pre.results

\* a resthook without subscribers, result_name set, on a run that holds a webhook
\* value and a registry that has a webhook service
C6_Witness ==
    /\ ResthookKnown /\ PayloadGood /\ Subscribers = <<>>
    /\ exec.result_name # ""
    /\ exec.pre.webhook # NoWebhook
    /\ services.webhook.err = NoErr
    /\ Len(NewEvents) = 2

----------------------------------------------------------------------------
(* C7 *)

\* C7: if no resthook asset has the slug of call_resthook, Execute returns nil and
\* changes nothing: no event of any type is logged, the service is not called, no
\* result is saved and run.webhook is unchanged.
C7_UnknownResthookNoop ==
    (IsResthook /\ exec.resthook = UnknownSlug) =>
        /\ exec.ret = NoErr
        /\ events = exec.pre.events
        /\ RunUntouched
        /\ exec.faults = <<>>

\* an unknown slug, result_name set, a registry with a webhook service and a run
\* that holds a webhook value, a result and events
C7_Witness ==
    /\ IsResthook /\ exec.resthook = UnknownSlug
    /\ exec.result_name # ""
    /\ services.webhook.err = NoErr
    /\ exec.pre.webhook # NoWebhook
    /\ Len(events) = 2

----------------------------------------------------------------------------
(* C8 *)

\* C8: if the payload of call_resthook fails to evaluate or is not valid JSON,
\* Execute returns an error and nothing else happens: no event is logged, no
\* subscriber is called, no result is saved, run.webhook is unchanged; and every
\* resthook_called event of the log carries valid JSON.
C8_PayloadMustBeJSON ==
    /\ (ResthookKnown /\ ~PayloadGood) =>
          /\ exec.ret # NoErr
          /\ events = exec.pre.events
          /\ RunUntouched
    /\ \A i \in 1..Len(events) :
          events[i].type = "resthook_called" => events[i].payload = "{\"contact\":{}}"

\* the payload evaluated without error to text that is not JSON, for a resthook
\* with subscribers and a registry with a webhook service
C8_Witness ==
    /\ ResthookKnown
    /\ exec.payload = [val |-> "{\"contact\":", err |-> NoErr]
    /\ Len(Subscribers) = 3
    /\ services.webhook.err = NoErr
    /\ exec.ret # NoErr

----------------------------------------------------------------------------
(* C9 *)

\* the last Execute asked the registry for the webhook service: call_webhook with a
\* url and a method a request is built from, call_resthook with a known resthook,
\* a valid payload and a first subscriber a request is built for
AskedForService ==
    \/ IsWebhook /\ exec.url.val = "http://hook/x" /\ exec.method = "get"
    \/ ResthookKnown /\ PayloadGood /\ Subscribers # <<>> /\ Subscribers[1] # BadURL

\* C9: in a registry without configured factories each of the seven accessors
\* returns no service and a non-nil error, for every session and config; an action
\* that asks for the webhook service then logs that error as its last event and
\* returns nil, without calling a service or logging webhook_called.
C9_EmptyRegistry ==
    services.webhook.svc = NoService =>
        /\ \A cap \in Capabilities, session \in {"s1", "s2"}, config \in {"c1", "c2"} :
              /\ Accessor(services, cap, session, config).svc = NoService
              /\ Accessor(services, cap, session, config).err # NoErr
        /\ AskedForService =>
              /\ exec.ret = NoErr
              /\ Len(NewEvents) >= 1
              /\ NewEvents[Len(NewEvents)] =
                    [type |-> "error", text |-> "no webhook service factory configured"]
              /\ OfType(NewEvents, "webhook_called") = <<>>
              /\ RunUntouched

\* call_resthook with result_name set has asked an empty registry for the webhook
\* service: resthook_called and the error are its events
C9_Witness ==
    /\ services.webhook.svc = NoService
    /\ AskedForService
    /\ IsResthook
    /\ exec.result_name # ""
    /\ Len(NewEvents) = 2

----------------------------------------------------------------------------
(* C10 *)

Texts(log) == {log[i].text : i \in 1..Len(log)}

\* the claim as stated: no path of an action's Execute is an invariant violation
\* of the engine, so Execute returns nil, and every fault met is an error event
C10_Original ==
    exec.type # "none" =>
        /\ exec.ret = NoErr
        /\ \A i \in 1..Len(exec.faults) : exec.faults[i] \in Texts(OfType(NewEvents, "error"))

\* C10 (amended): Execute returns a non-nil error exactly when call_resthook's
\* payload fails to evaluate or is not valid JSON, or when call_webhook cannot build
\* its request; every other fault (a url, body or header template that fails to
\* evaluate, an empty or invalid url, a subscriber request that cannot be built, a
\* missing service, a service failure) is an error event and Execute returns nil.
C10_ErrorsReturned ==
    exec.type # "none" =>
        /\ (exec.ret # NoErr) <=>
              \/ ResthookKnown /\ ~PayloadGood
              \/ IsWebhook /\ exec.url.val = "http://hook/x" /\ exec.method = "b d"
        /\ \A i \in 1..Len(exec.faults) :
              exec.faults[i] # exec.ret =>
                  exec.faults[i] \in Texts(OfType(NewEvents, "error"))
        /\ Len(OfType(NewEvents, "error")) =
              Len(exec.faults) - (IF exec.ret # NoErr THEN 1 ELSE 0)
        /\ exec.ret # NoErr => exec.faults[Len(exec.faults)] = exec.ret

\* call_resthook met a subscriber it could build no request for, after a service
\* failure for the first subscriber: two error events, and nil returned
C10_Witness ==
    /\ ResthookKnown /\ PayloadGood
    /\ Len(Subscribers) = 2 /\ Subscribers[2] = BadURL
    /\ exec.faults = <<"webhook call failed", "parse \":\": missing protocol scheme">>
    /\ exec.ret = NoErr
    /\ Len(OfType(NewEvents, "error")) = 2

----------------------------------------------------------------------------
(* C11 *)

\* the webhook_called events the last Execute logged
Called == OfType(NewEvents, "webhook_called")

\* C11: whatever the webhook service answers or fails with, an Execute that has
\* called it returns nil; every call record the service returned has its own
\* webhook_called event, in call order, whose status is connection_error for
\* status code 0 and response_error for any other code that is not 2xx (410 from
\* a resthook subscriber is subscriber_gone).
C11_ServiceErrorsAreStatuses ==
    exec.type # "none" =>
        /\ NewRequests # <<>> => exec.ret = NoErr
        /\ Len(Called) = Len(exec.calls)
        /\ \A i \in 1..Len(exec.calls) :
              LET c == exec.calls[i]
                  e == Called[i]
              IN  /\ e.url = c.url /\ e.status_code = c.status_code
                  /\ c.status_code = 0 => e.status = CallStatusConnectionError
                  /\ (c.status_code # 0 /\ ~Is2xx(c.status_code)
                        /\ ~(IsResthook /\ c.status_code = 410)) =>
                          e.status = CallStatusResponseError
                  /\ (IsResthook /\ c.status_code = 410) =>
                          e.status = CallStatusSubscriberGone
                  /\ Is2xx(c.status_code) => e.status = CallStatusSuccess

\* call_resthook got a connection error from its first subscriber and a 500 from
\* its second: nil is returned and the two events carry the two statuses
C11_Witness ==
    /\ IsResthook /\ exec.ret = NoErr
    /\ Len(exec.calls) = 2
    /\ exec.calls[1].status_code = 0 /\ exec.calls[2].status_code = 500
    /\ Len(Called) = 2
    /\ Called[1].status = CallStatusConnectionError
    /\ Called[2].status = CallStatusResponseError

----------------------------------------------------------------------------
(* C19 *)

\* the places of the execution's record where an effect is noted
Places(op, arg) ==
    {i \in 1..Len(exec.trace) : exec.trace[i] = Effect(op, arg)}

PlacesOf(op) == {i \in 1..Len(exec.trace) : exec.trace[i].op = op}

\* every place of S comes before every place of T
AllBefore(S, T) == \A i \in S, j \in T : i < j

\* C19: within one Execute every webhook_called event is logged before run.webhook
\* is set and before a result is saved, and run.webhook is set before the result
\* is saved; call_webhook logs its one event, sets run.webhook and saves its
\* result in that order, call_resthook logs the events of all its calls first.
C19_EventBeforeWebhookBeforeResult ==
    exec.type # "none" =>
        /\ AllBefore(Places("logEvent", "webhook_called"), PlacesOf("SetWebhook"))
        /\ AllBefore(Places("logEvent", "webhook_called"), PlacesOf("SaveResult"))
        /\ AllBefore(PlacesOf("SetWebhook"), PlacesOf("SaveResult"))
        /\ AllBefore(PlacesOf("SaveResult"), Places("logEvent", "run_result_changed"))
        /\ Cardinality(PlacesOf("SetWebhook")) <= 1
        /\ Cardinality(PlacesOf("SaveResult")) <= 1
        /\ PlacesOf("SetWebhook") # {} => Places("logEvent", "webhook_called") # {}
        /\ (IsWebhook /\ exec.calls # <<>>) =>
              /\ Cardinality(Places("logEvent", "webhook_called")) = 1
              /\ PlacesOf("SetWebhook") # {}
              /\ exec.result_name # "" => PlacesOf("SaveResult") # {}

\* call_webhook with result_name: the service is called, then the event is logged,
\* run.webhook is set, the result is saved and its event logged
C19_Witness ==
    /\ IsWebhook
    /\ exec.trace = <<Effect("Call", "http://hook/x"), Effect("logEvent", "webhook_called"),
                      Effect("SetWebhook", "json"), Effect("SaveResult", "hook_result"),
                      Effect("logEvent", "run_result_changed")>>

\* call_resthook with result_name and two calls: both events are logged before
\* run.webhook is set and the result saved
C19_ResthookReached ==
    /\ IsResthook
    /\ Len(exec.calls) = 2
    /\ Cardinality(Places("logEvent", "webhook_called")) = 2
    /\ PlacesOf("SetWebhook") # {} /\ PlacesOf("SaveResult") # {}

----------------------------------------------------------------------------
(* C20 *)

\* the last call_webhook met a template that failed to evaluate
TemplateFaults ==
    {i \in 1..Len(exec.faults) :
        exec.faults[i] \in {"error evaluating url", "error evaluating body"}
                                \cup {HeaderError(k) : k \in HeaderKeys}}

\* the evaluated url of the last call_webhook is non-empty and valid
URLGood == exec.url.val # "" /\ isValidURL(exec.url.val)

\* the events of the log with the text of a template that failed to evaluate
TemplateErrors(log) ==
    {i \in 1..Len(log) :
        /\ log[i].type = "error"
        /\ log[i].text \in {"error evaluating url", "error evaluating body"}
                                \cup {HeaderError(k) : k \in HeaderKeys}}

\* the claim as stated: after a template evaluation error, provided the evaluated
\* url is non-empty and valid, the webhook service is called exactly once and its
\* webhook_called event is logged after the error events
C20_Original ==
    (IsWebhook /\ TemplateFaults # {} /\ URLGood) =>
        /\ Len(NewRequests) = 1
        /\ Len(Called) = 1
        /\ \A i \in TemplateErrors(NewEvents) :
              \A j \in 1..Len(NewEvents) : NewEvents[j].type = "webhook_called" => i < j

\* C20 (amended): every template of call_webhook that fails to evaluate (url, body
\* or header value) is logged as an error event and Execute goes on; provided the
\* evaluated url is non-empty and valid, the request can be built (the method is
\* one http.NewRequest accepts) and the registry holds a webhook service, the
\* service is called exactly once, Execute returns nil, and the webhook_called
\* event, logged iff the service returned a call record, comes after those error
\* events.
C20_TemplateErrorsDoNotAbort ==
    (IsWebhook /\ TemplateFaults # {}) =>
        /\ Cardinality(TemplateErrors(NewEvents)) = Cardinality(TemplateFaults)
        /\ (URLGood /\ validMethod(ToUpper(exec.method))
              /\ services.webhook.svc # NoService) =>
              /\ Len(NewRequests) = 1
              /\ exec.ret = NoErr
              /\ Len(Called) = Len(exec.calls) /\ Len(Called) <= 1
              /\ \A i \in TemplateErrors(NewEvents) :
                    \A j \in 1..Len(NewEvents) :
                        NewEvents[j].type = "webhook_called" => i < j

\* the url, the body and a header of call_webhook all failed to evaluate, the url
\* evaluated to a valid one all the same: three error events, then the service is
\* called once and its event logged
C20_Witness ==
    /\ IsWebhook /\ URLGood
    /\ exec.faults = <<"error evaluating url", "error evaluating body",
                       HeaderError("X-Token")>>
    /\ Len(NewRequests) = 1
    /\ Len(NewEvents) >= 4
    /\ NewEvents[4].type = "webhook_called"

----------------------------------------------------------------------------
(* C12 *)

\* C12: an Execute of call_webhook or call_resthook, on whatever path it ends,
\* leaves the run's path (its open step, no exit chosen), the run's status, the
\* session's stack and the session's wait as they were; only the event log,
\* run.webhook and the results may differ.
C12_ControlUnchanged ==
    exec.type # "none" =>
        /\ control = exec.pre.control
        /\ control.path[Len(control.path)].exit = ""
        /\ control.wait = NoWait

\* call_webhook has changed the log, run.webhook and a result: the control state
\* is the one before, its step still open
C12_Witness ==
    /\ IsWebhook
    /\ Len(events) > Len(exec.pre.events)
    /\ webhook # exec.pre.webhook
    /\ results # exec.pre.results
    /\ control = OpenStep

----------------------------------------------------------------------------
(* What the claims about the session speak of *)

\* the sessions observed: the one runFlow drives, the one never serialised
Sessions == {persisted, memory}

\* a session after it is serialised and read back
ReadBack(s) == ReadSession(Serialize(s, driver.webhook_kept))

\* Start or Resume has returned
Returned == driver.pc \in {"returned", "done"}

\* the runs as TestFlows compares them: their number, flows and statuses
RunsView(s) ==
    [i \in 1..Len(Runs(s)) |-> [flow |-> Runs(s)[i].flow_uuid, status |-> Runs(s)[i].status]]

IsPrefix(s, t) == Len(s) <= Len(t) /\ SubSeq(t, 1, Len(s)) = s

----------------------------------------------------------------------------
(* C13 *)

\* Wait() is non-nil iff the session is waiting; the wait of a waiting session is
\* that of the top run, at the node of its open step
WaitConsistent(s) ==
    /\ (Wait(s) # NoWait) <=> (s.status = "waiting")
    /\ s.status = "waiting" =>
          /\ s.stack # <<>>
          /\ Wait(s).run = s.runs[Top(s)].uuid
          /\ Wait(s).node = CurrentNode(s.runs[Top(s)])
          /\ s.runs[Top(s)].path[Len(s.runs[Top(s)].path)].exit = ""

\* C13: in every state of a session, also of one serialised and read back, Wait()
\* is non-nil iff the status is waiting, and the wait of a waiting session points
\* to the current node of the top run; when Start or Resume has returned nil the
\* session is waiting, completed or failed, never active.
C13_WaitIffWaiting ==
    /\ \A s \in Sessions : WaitConsistent(s) /\ WaitConsistent(ReadBack(s))
    /\ Returned => \A s \in Sessions : s.status \in {"waiting", "completed", "failed"}

\* two_questions read back and resumed once: Resume has returned, the session
\* waits at the second question
C13_Witness ==
    /\ driver.pc = "returned"
    /\ driver.reads = 1
    /\ persisted.status = "waiting"
    /\ Wait(persisted) = [type |-> "msg", run |-> "run-1", node |-> "q2"]

----------------------------------------------------------------------------
(* C16 *)

\* the visits of the pump of a session are within the caps; a session that has
\* failed on a cap has for last event an error naming a node it visited before
Capped(s) ==
    /\ Len(s.visited) <= MaxNodeVisits
    /\ \A n \in {s.visited[i] : i \in 1..Len(s.visited)} :
          Count(s.visited, n) <= MaxSameNodeVisits
    /\ \A i \in 1..Len(Runs(s)) :
          Len(Runs(s)[i].path) <= MaxNodeVisits * (driver.resumes + 1)

LoopFailed(s) ==
    /\ s.status = "failed"
    /\ Events(s) # <<>>
    /\ \E n \in {s.visited[i] : i \in 1..Len(s.visited)} :
          Events(s)[Len(Events(s))] = NewError(loopError(n))

\* C16: the pump of a Start or Resume ends: every iteration is the visit of a node
\* or the last one, and the visits are at most the loop cap (and at most the
\* smaller cap for one node); a flow whose exits lead back to a node without a
\* wait, directly or through a subflow, ends failed with an error event that
\* names a node of the loop.
C16_PumpTerminates ==
    /\ [](\A s \in Sessions :
            /\ Capped(s)
            /\ (driver.flow \in LoopFlows /\ Returned) => LoopFailed(s))
    /\ [][driver.pc = "pumping" =>
            \/ driver'.pc # "pumping"
            \/ Len(persisted'.visited) = Len(persisted.visited) + 1
            \/ Len(memory'.visited) = Len(memory.visited) + 1]_vars

\* subflow_loop has failed: its two flows entered each other until a cap was hit
C16_Witness ==
    /\ driver.flow = "subflow_loop" /\ driver.pc = "returned"
    /\ persisted.status = "failed"
    /\ Len(Runs(persisted)) >= 4
    /\ Count(persisted.visited, "s1") >= 2

----------------------------------------------------------------------------
(* C17 *)

\* C17: the event log of a session is only appended to: over every step of Start,
\* Resume and the actions they execute, Events() before is a prefix of Events()
\* after (the session read back is another session, whose log starts empty).
C17_AppendOnly ==
    [][/\ IsPrefix(Events(memory), Events(memory'))
       /\ driver'.reads = driver.reads => IsPrefix(Events(persisted), Events(persisted'))
      ]_vars

\* two_questions resumed twice without serialisation: the log holds the events of
\* the three steps, three msg_created and two msg_received among them
C17_Witness ==
    /\ driver.flow = "two_questions" /\ driver.resumes = 2
    /\ memory.status = "completed"
    /\ Len(OfType(Events(memory), "msg_created")) = 3
    /\ Len(OfType(Events(memory), "msg_received")) = 2
    /\ Len(Events(memory)) > Len(Events(persisted))

----------------------------------------------------------------------------
(* C18 *)

\* the runs of the stack under the top
Below(s) == {RunIndex(s, s.stack[k]) : k \in 1..(Len(s.stack) - 1)}

\* the stack is a chain of parents: the first run has none, every other run has
\* the run under it for parent; a run under the top is active with its step open
\* at the node it entered the child from; no finished run is on the stack
StackOfParents(s) ==
    /\ s.stack # <<>> => Runs(s)[RunIndex(s, s.stack[1])].parent_uuid = ""
    /\ \A k \in 2..Len(s.stack) :
          Runs(s)[RunIndex(s, s.stack[k])].parent_uuid = s.stack[k - 1]
    /\ \A i \in Below(s) :
          /\ Runs(s)[i].status = "active"
          /\ Runs(s)[i].path # <<>>
          /\ Runs(s)[i].path[Len(Runs(s)[i].path)].exit = ""
    /\ \A i \in 1..Len(Runs(s)) :
          Runs(s)[i].status = "completed" =>
              /\ \A k \in 1..Len(s.stack) : s.stack[k] # Runs(s)[i].uuid
              /\ Runs(s)[i].path[Len(Runs(s)[i].path)].exit # ""

\* C18: a flow entered from a run is a child run pushed on the stack whose parent
\* is that run; the parent's path does not change while the child is on the stack
\* above it; a child that reaches a null destination completes, is popped and
\* control returns to the parent; when the subflow test has completed the session
\* has exactly two runs, the parent and its child, both completed.
C18_SubflowLifecycle ==
    /\ [](\A s \in Sessions :
            /\ StackOfParents(s)
            /\ StackOfParents(ReadBack(s))
            /\ (driver.flow = "subflow" /\ s.status = "completed") =>
                  /\ RunsView(s) = <<[flow |-> "subflow", status |-> "completed"],
                                     [flow |-> "child", status |-> "completed"]>>
                  /\ Runs(s)[2].parent_uuid = Runs(s)[1].uuid
                  /\ Runs(s)[1].path = <<[node |-> "p1", exit |-> "p1:exit"],
                                         [node |-> "N", exit |-> "N:exit"],
                                         [node |-> "p3", exit |-> "p3:exit"]>>)
    /\ [][\A i \in Below(memory) :
            (Len(memory'.stack) > 1 /\ i \in Below(memory')) =>
                Runs(memory')[i].path = Runs(memory)[i].path]_vars

\* the subflow test read back while its child waited, resumed and completed
C18_Witness ==
    /\ driver.flow = "subflow" /\ driver.reads = 1
    /\ persisted.status = "completed"
    /\ Len(Runs(persisted)) = 2
    /\ Runs(persisted)[2].parent_uuid = "run-1"
    /\ persisted.stack = <<>>

\* the child of the subflow test waits on top of its parent
C18_ChildOnStack ==
    /\ driver.flow = "subflow"
    /\ persisted.stack = <<"run-1", "run-2">>
    /\ persisted.status = "waiting"

----------------------------------------------------------------------------
(* C21 *)

\* C21: call_webhook sets run.webhook exactly when the service returned a call
\* record, whatever the status of the call: run.webhook is then the value
\* extracted from that call's response, for status code 0 the empty value and
\* not what an earlier webhook left; without a call record run.webhook is as it
\* was before.
C21_WebhookOverwritten ==
    IsWebhook =>
        /\ (PlacesOf("SetWebhook") # {}) <=> (exec.calls # <<>>)
        /\ exec.calls # <<>> =>
              /\ webhook = JSONToXValue(ExtractResponseJSON(exec.calls[1].response))
              /\ exec.calls[1].status_code = 0 =>
                    /\ webhook.data = ""
                    /\ exec.pre.webhook.data # "" => webhook # exec.pre.webhook
        /\ exec.calls = <<>> => webhook = exec.pre.webhook

\* a run whose earlier webhook left JSON executes a call_webhook that ends in a
\* connection error: run.webhook is the empty value of that call
C21_Witness ==
    /\ IsWebhook
    /\ exec.pre.webhook = [kind |-> "json", data |-> "{\"ok\":true}"]
    /\ Len(exec.calls) = 1 /\ exec.calls[1].status_code = 0
    /\ Called[1].status = CallStatusConnectionError
    /\ webhook = [kind |-> "text", data |-> ""]

----------------------------------------------------------------------------
(* C22 *)

\* C22: whenever call_resthook with result_name set has run against a known
\* resthook with a valid payload and Execute returned nil, exactly one result was
\* created under that name: the result of the picked call when there is a call
\* record, the "no subscribers" Failure result otherwise.
C22_ResultAlwaysCreated ==
    (ResthookKnown /\ PayloadGood /\ exec.result_name # "" /\ exec.ret = NoErr) =>
        LET saved == OfType(NewEvents, "run_result_changed")
            key == KeyOf(exec.result_name)
        IN  /\ Len(saved) = 1
            /\ saved[1].name = exec.result_name
            /\ Cardinality(Places("SaveResult", key)) = 1
            /\ key \in DOMAIN results
            /\ results[key].name = exec.result_name
            /\ IF exec.calls # <<>>
               THEN LET picked == pickResultCall(exec.calls)
                    IN  /\ results[key].value = Itoa(picked.status_code)
                        /\ results[key].input = picked.method \o " " \o picked.url
               ELSE /\ results[key].value = "no subscribers"
                    /\ results[key].category = "Failure"

----------------------------------------------------------------------------
(* C24 *)

\* C24: after call_resthook completes with at least one call record, run.webhook
\* is the parsed response of the call pickResultCall selects among the records,
\* whether or not result_name is set, and with result_name set that same call is
\* the one saved as the result.
C24_Original ==
    (IsResthook /\ exec.calls # <<>>) =>
        LET picked == pickResultCall(exec.calls)
            key == KeyOf(exec.result_name)
        IN  /\ webhook = JSONToXValue(ExtractResponseJSON(picked.response))
            /\ PlacesOf("SetWebhook") # {}
            /\ exec.result_name # "" =>
                  /\ key \in DOMAIN results
                  /\ results[key].value = Itoa(picked.status_code)
                  /\ results[key].input = picked.method \o " " \o picked.url

\* C24, on the executions that leave the subscriber loop at its end: run.webhook
\* is the parsed response of the call that pickResultCall selects, whether or not
\* result_name is set, and with result_name set the result saved is made from
\* that same call, not from the last subscriber called.
C24_WebhookIsPickedCall ==
    (IsResthook /\ exec.finished /\ exec.calls # <<>>) =>
        LET picked == pickResultCall(exec.calls)
            key == KeyOf(exec.result_name)
        IN  /\ exec.picked = picked
            /\ webhook = JSONToXValue(ExtractResponseJSON(picked.response))
            /\ Cardinality(PlacesOf("SetWebhook")) = 1
            /\ exec.result_name # "" =>
                  /\ key \in DOMAIN results
                  /\ results[key].value = Itoa(picked.status_code)
                  /\ results[key].input = picked.method \o " " \o picked.url
                  /\ results[key].category =
                        webhookStatusCategories(callStatus(picked, TRUE))
            /\ exec.result_name = "" => results = exec.pre.results

\* two subscribers answered 500 and then 200, no result_name: run.webhook is the
\* response of the first call, the failure, and not of the last one called
C24_Witness ==
    /\ IsResthook /\ exec.finished
    /\ exec.result_name = ""
    /\ Len(exec.calls) = 2
    /\ exec.calls[1].status_code = 500 /\ exec.calls[2].status_code = 200
    /\ exec.picked = exec.calls[1]
    /\ webhook = [kind |-> "text", data |-> "oops"]
    /\ webhook # JSONToXValue(ExtractResponseJSON(exec.calls[2].response))

----------------------------------------------------------------------------
(* C23 *)

\* the outcome of the last call_webhook had the map of its headers been ranged
\* over in the given order: same run, same action, same template evaluations,
\* same answer of the service
Replay(order) ==
    CallWebhookExecute(exec.action, Work(exec.pre), services,
                       [url |-> exec.inputs.url, body |-> exec.inputs.body,
                        order |-> order, headers |-> exec.inputs.headers,
                        out |-> exec.inputs.out])

\* C23: replay is deterministic: an execution of call_webhook from the same
\* session state, with the same action definition and the same service responses,
\* produces the same events in the same order, the error events of failing header
\* templates included, and hands the same request to the service, the headers
\* added to it included.
C23_ReplayDeterministic ==
    IsWebhook =>
        \A order \in Orders(exec.action.headers) :
            /\ Replay(order).events = events
            /\ Replay(order).requests = requests

====
